---- MODULE Spec2Model ----
(***************************************************************************)
(* comic_cron: one cron-started run loads comic_cron.json, polls xkcd, QC  *)
(* and SMBC in that order, posts at most one new comic per source to the   *)
(* source's webhook URLs, saves the record and posts a debug report.       *)
(* The model follows src/main.rs; the archive, the two RSS feeds, the      *)
(* sinks and the disk are the environment.                                 *)
(***************************************************************************)
EXTENDS Integers, Sequences, FiniteSets, TLC

\* ------------------------------------------------------------------ bounds
MaxNum == 3      \* highest xkcd number the archive publishes
MaxGuid == 4     \* guids 1..MaxGuid are published per RSS feed, in this order
MaxWin == 3      \* items an RSS feed retains
MaxRuns == 3     \* cron invocations of main
MaxUrls == 2     \* URLs in one webhook list
MaxSrc == 2      \* image URLs 1..MaxSrc a description can name
MaxNodes == 3    \* elements in one description fragment

\* --------------------------------------------------------------- constants
SKIPPED == "Some items may have been skipped"
NoGuid == 0      \* the empty string: a guid checkpoint that is not set

\* Result<Success, String> with Success = Option<String>
None == [tag |-> "None", n |-> 0, e |-> ""]
Some(n) == [tag |-> "Some", n |-> n, e |-> ""]
Err(e, index) == [tag |-> "Err", n |-> index, e |-> e]
NotRun == [tag |-> "", n |-> 0, e |-> ""]

\* what one HTTP GET, or one step of decoding its body, can fail with
GetErrors == {"url -> request", "request -> text", "text -> json", "json -> rust"}
RssErrors == {"url -> request", "request -> text", "text -> xml"}

Min(a, b) == IF a < b THEN a ELSE b

\* ------------------------------------------------------------ pure helpers

\* Xkcd::get(client, index): index 0 stands for None (the latest entry).
\* r is what the transport and the decoders do; an index the archive does not
\* hold answers with a page that is no JSON.
XkcdGet(index, latest_num, r) ==
    IF r # "ok" THEN Err(r, index)
    ELSE IF index = 0 THEN Some(latest_num)
    ELSE IF index >= 1 /\ index <= latest_num THEN Some(index)
    ELSE Err("text -> json", index)

\* impl Into<Webhook> for Xkcd
XkcdWebhook(num) == [username |-> "ComicCron xkcd", item |-> num, content |-> ""]

\* RssItem::webhook with a plausible slip: potential_skip is not rendered
RssWebhookPlain(item, potential_skip, embed_title) ==
    IF item.pub_date # "rfc2822" THEN <<>>
    ELSE << [username |-> "ComicCron " \o embed_title,
             item |-> item.guid,
             content |-> "",
             image |-> item.img_url,
             footer |-> item.alt_text] >>

\* RssItem::webhook: None when pub_date is not RFC 2822
RssWebhook(item, potential_skip, embed_title) ==
    IF item.pub_date # "rfc2822" THEN <<>>
    ELSE << [username |-> "ComicCron " \o embed_title,
             item |-> item.guid,
             content |-> IF potential_skip THEN SKIPPED ELSE "",
             image |-> item.img_url,
             footer |-> item.alt_text] >>

\* the nodes of a parsed fragment in document order: each element, then what
\* it contains
RECURSIVE Flatten(_)
Flatten(nodes) ==
    IF nodes = <<>> THEN <<>>
    ELSE <<Head(nodes)>> \o Flatten(Head(nodes).kids) \o Flatten(Tail(nodes))

\* macky_xml's elem_name, as the specification words it: the descendant
\* elements with this tag name
ElemName(nodes, name) == SelectSeq(Flatten(nodes), LAMBDA n : n.name = name)

\* parse_qc_desc with a plausible slip: an img without src is passed over for
\* the next img that has one
parse_qc_descLenient(data) ==
    LET imgs == SelectSeq(ElemName(data, "img"), LAMBDA n : n.src # 0)
    IN IF imgs = <<>> THEN <<>> ELSE << <<imgs[1].src, "">> >>

\* RssItem::parse_qc_desc: src 0 stands for an element without the attribute
parse_qc_desc(data) ==
    LET imgs == ElemName(data, "img")
    IN IF imgs = <<>> THEN <<>>
       ELSE IF imgs[1].src = 0 THEN <<>>
       ELSE << <<imgs[1].src, "">> >>

\* RssItem::parse_smbc_desc
parse_smbc_desc(data) ==
    LET imgs == ElemName(data, "img")
    IN IF imgs = <<>> THEN <<>>
       ELSE IF imgs[1].src = 0 THEN <<>>
       ELSE << <<imgs[1].src, "">> >>

\* from_rss with a plausible slip: an item that cannot be built is filled in
\* with defaults
FromRssDefault(xml, description) ==
    << [guid |-> xml.guid, title |-> xml.guid, img_url |-> 0, alt_text |-> "",
        pub_date |-> xml.pub_date] >>

\* RssItem::from_rss: None when a sub-element is missing or mis-shaped, the
\* description does not parse, or the description function finds no img src;
\* description names the function the caller passes
FromRss(xml, description) ==
    IF xml.shape # "ok" THEN <<>>
    ELSE IF ~xml.description.parsed THEN <<>>
    ELSE LET found == IF description = "parse_qc_desc"
                      THEN parse_qc_desc(xml.description.children)
                      ELSE parse_smbc_desc(xml.description.children)
         IN IF found = <<>> THEN <<>>
            ELSE << [guid |-> xml.guid, title |-> xml.guid,
                     img_url |-> found[1][1], alt_text |-> found[1][2],
                     pub_date |-> xml.pub_date] >>

\* Webhook::send with a plausible slip: the error of a post is dropped
\* (no "?"), so a failed delivery still reports Ok
SendLossy(webhook, webhooks, fail) ==
    LET reached == IF fail = 0 THEN Len(webhooks) ELSE fail - 1
    IN [ok |-> TRUE,
        posts |-> [i \in 1..reached |-> [url |-> webhooks[i], msg |-> webhook]]]

\* Webhook::send with a plausible slip: a failed post does not end the loop,
\* the URLs after it are still posted to and the error is returned at the end
SendOn(webhook, webhooks, fail) ==
    LET reached == SelectSeq(webhooks, LAMBDA u : fail = 0 \/ u # webhooks[fail])
    IN [ok |-> fail = 0,
        posts |-> [i \in 1..Len(reached) |-> [url |-> reached[i], msg |-> webhook]]]

\* Webhook::send: posts to the URLs in order; fail is the position of the
\* first URL whose post ends in a transport error (0: none does).
Send(webhook, webhooks, fail) ==
    LET reached == IF fail = 0 THEN Len(webhooks) ELSE fail - 1
    IN [ok |-> fail = 0,
        posts |-> [i \in 1..reached |-> [url |-> webhooks[i], msg |-> webhook]]]

\* xkcd with a plausible slip: when behind by more than one it posts the
\* latest entry instead of fetching entry c+1
xkcdJump(state, latest_num, r1, r2, fail) ==
    LET latest_xkcd == XkcdGet(0, latest_num, r1)
        quiet(res) == [state |-> state, res |-> res, webhook |-> <<>>, posts |-> <<>>]
        deliver(post) ==
            LET webhook == XkcdWebhook(post.n)
                sent == Send(webhook, state.xkcd_webhooks, fail)
            IN IF ~sent.ok
               THEN [state |-> state, res |-> Err("error sending webhook", 0),
                     webhook |-> <<webhook>>, posts |-> sent.posts]
               ELSE [state |-> [state EXCEPT !.xkcd = @ + 1],
                     res |-> Some(post.n),
                     webhook |-> <<webhook>>, posts |-> sent.posts]
    IN IF latest_xkcd.tag = "Err" THEN quiet(latest_xkcd)
       ELSE IF state.xkcd + 1 <= latest_xkcd.n THEN deliver(latest_xkcd)
       ELSE quiet(None)

\* xkcd with a plausible slip: "not equal" where the code has "less than", so
\* a checkpoint ahead of the archive is fetched by index
xkcdAhead(state, latest_num, r1, r2, fail) ==
    LET latest_xkcd == XkcdGet(0, latest_num, r1)
        quiet(res) == [state |-> state, res |-> res, webhook |-> <<>>, posts |-> <<>>]
        deliver(post) ==
            LET webhook == XkcdWebhook(post.n)
                sent == Send(webhook, state.xkcd_webhooks, fail)
            IN IF ~sent.ok
               THEN [state |-> state, res |-> Err("error sending webhook", 0),
                     webhook |-> <<webhook>>, posts |-> sent.posts]
               ELSE [state |-> [state EXCEPT !.xkcd = @ + 1],
                     res |-> Some(post.n),
                     webhook |-> <<webhook>>, posts |-> sent.posts]
    IN IF latest_xkcd.tag = "Err" THEN quiet(latest_xkcd)
       ELSE IF state.xkcd + 1 = latest_xkcd.n THEN deliver(latest_xkcd)
       ELSE LET post == XkcdGet(state.xkcd + 1, latest_num, r2)
            IN IF post.tag = "Err" THEN quiet(post) ELSE deliver(post)

\* async fn xkcd: r1, r2 are the outcomes of the latest and the by-index
\* fetch, fail the outcome of the delivery.
xkcd(state, latest_num, r1, r2, fail) ==
    LET latest_xkcd == XkcdGet(0, latest_num, r1)
        quiet(res) == [state |-> state, res |-> res, webhook |-> <<>>, posts |-> <<>>]
        deliver(post) ==
            LET webhook == XkcdWebhook(post.n)
                sent == Send(webhook, state.xkcd_webhooks, fail)
            IN IF ~sent.ok
               THEN [state |-> state, res |-> Err("error sending webhook", 0),
                     webhook |-> <<webhook>>, posts |-> sent.posts]
               ELSE [state |-> [state EXCEPT !.xkcd = @ + 1],
                     res |-> Some(post.n),
                     webhook |-> <<webhook>>, posts |-> sent.posts]
    IN IF latest_xkcd.tag = "Err" THEN quiet(latest_xkcd)
       ELSE IF state.xkcd + 1 = latest_xkcd.n THEN deliver(latest_xkcd)
       ELSE IF state.xkcd + 1 < latest_xkcd.n
            THEN LET post == XkcdGet(state.xkcd + 1, latest_num, r2)
                 IN IF post.tag = "Err" THEN quiet(post) ELSE deliver(post)
       ELSE quiet(None)

\* FirstMatch with a plausible slip: off by one, so the item the code takes as
\* "one newer than the match" is the matching item itself
FirstMatchNext(rss_items, guid) ==
    LET found == {i \in 2..Len(rss_items) : rss_items[i].guid = guid}
    IN IF found = {} THEN 0 ELSE (CHOOSE i \in found : \A j \in found : i <= j) + 1

\* the position (1-based) of the first item after the newest whose guid is the
\* checkpoint, 0 when the loop "for i in 1..rss_items.len()" finds none
FirstMatch(rss_items, guid) ==
    LET found == {i \in 2..Len(rss_items) : rss_items[i].guid = guid}
    IN IF found = {} THEN 0 ELSE CHOOSE i \in found : \A j \in found : i <= j

\* qc with a plausible slip: the newest item is not compared with the
\* checkpoint before the scan
qcNoHead(state, resp, xml_items, fail) ==
    LET quiet(res) == [state |-> state, res |-> res, webhook |-> <<>>, posts |-> <<>>]
        notify(item, potential_skip) ==
            LET webhook == RssWebhook(item, potential_skip, "QC")
                sent == Send(webhook[1], state.qc_webhooks, fail)
            IN IF webhook = <<>> THEN quiet(Err("rust -> webhook", 0))
               ELSE IF ~sent.ok
               THEN [state |-> state, res |-> Err("error sending webhook", 0),
                     webhook |-> webhook, posts |-> sent.posts]
               ELSE [state |-> [state EXCEPT !.qc = item.guid],
                     res |-> Some(item.title),
                     webhook |-> webhook, posts |-> sent.posts]
    IN IF resp # "ok" THEN quiet(Err(resp, 0))
       ELSE IF Len(xml_items) = 0 THEN quiet(Err("no rss items", 0))
       ELSE IF \E k \in 1..Len(xml_items) : FromRss(xml_items[k], "parse_qc_desc") = <<>>
            THEN quiet(Err("xml -> rust", 0))
       ELSE LET rss_items == [k \in 1..Len(xml_items) |-> FromRss(xml_items[k], "parse_qc_desc")[1]]
                i == FirstMatch(rss_items, state.qc)
            IN IF i # 0 THEN notify(rss_items[i - 1], FALSE)
               ELSE notify(rss_items[Len(rss_items)], TRUE)

\* qc with a plausible slip: a document without items counts as "nothing new"
qcEmptyQuiet(state, resp, xml_items, fail) ==
    LET quiet(res) == [state |-> state, res |-> res, webhook |-> <<>>, posts |-> <<>>]
        notify(item, potential_skip) ==
            LET webhook == RssWebhook(item, potential_skip, "QC")
                sent == Send(webhook[1], state.qc_webhooks, fail)
            IN IF webhook = <<>> THEN quiet(Err("rust -> webhook", 0))
               ELSE IF ~sent.ok
               THEN [state |-> state, res |-> Err("error sending webhook", 0),
                     webhook |-> webhook, posts |-> sent.posts]
               ELSE [state |-> [state EXCEPT !.qc = item.guid],
                     res |-> Some(item.title),
                     webhook |-> webhook, posts |-> sent.posts]
    IN IF resp # "ok" THEN quiet(Err(resp, 0))
       ELSE IF Len(xml_items) = 0 THEN quiet(None)
       ELSE IF \E k \in 1..Len(xml_items) : FromRss(xml_items[k], "parse_qc_desc") = <<>>
            THEN quiet(Err("xml -> rust", 0))
       ELSE LET rss_items == [k \in 1..Len(xml_items) |-> FromRss(xml_items[k], "parse_qc_desc")[1]]
                i == FirstMatch(rss_items, state.qc)
            IN IF rss_items[1].guid = state.qc THEN quiet(None)
               ELSE IF i # 0 THEN notify(rss_items[i - 1], FALSE)
               ELSE notify(rss_items[Len(rss_items)], TRUE)

\* qc with a plausible slip: on a match the newest item is notified, not the
\* item one newer than the match
qcNewest(state, resp, xml_items, fail) ==
    LET quiet(res) == [state |-> state, res |-> res, webhook |-> <<>>, posts |-> <<>>]
        notify(item, potential_skip) ==
            LET webhook == RssWebhook(item, potential_skip, "QC")
                sent == Send(webhook[1], state.qc_webhooks, fail)
            IN IF webhook = <<>> THEN quiet(Err("rust -> webhook", 0))
               ELSE IF ~sent.ok
               THEN [state |-> state, res |-> Err("error sending webhook", 0),
                     webhook |-> webhook, posts |-> sent.posts]
               ELSE [state |-> [state EXCEPT !.qc = item.guid],
                     res |-> Some(item.title),
                     webhook |-> webhook, posts |-> sent.posts]
    IN IF resp # "ok" THEN quiet(Err(resp, 0))
       ELSE IF Len(xml_items) = 0 THEN quiet(Err("no rss items", 0))
       ELSE IF \E k \in 1..Len(xml_items) : FromRss(xml_items[k], "parse_qc_desc") = <<>>
            THEN quiet(Err("xml -> rust", 0))
       ELSE LET rss_items == [k \in 1..Len(xml_items) |-> FromRss(xml_items[k], "parse_qc_desc")[1]]
                i == FirstMatch(rss_items, state.qc)
            IN IF rss_items[1].guid = state.qc THEN quiet(None)
               ELSE IF i # 0 THEN notify(rss_items[1], FALSE)
               ELSE notify(rss_items[Len(rss_items)], TRUE)

\* async fn qc: resp is the outcome of the fetch and of the document parse,
\* xml_items the item elements of the document, fail the outcome of delivery.
qc(state, resp, xml_items, fail) ==
    LET quiet(res) == [state |-> state, res |-> res, webhook |-> <<>>, posts |-> <<>>]
        notify(item, potential_skip) ==
            LET webhook == RssWebhook(item, potential_skip, "QC")
                sent == Send(webhook[1], state.qc_webhooks, fail)
            IN IF webhook = <<>> THEN quiet(Err("rust -> webhook", 0))
               ELSE IF ~sent.ok
               THEN [state |-> state, res |-> Err("error sending webhook", 0),
                     webhook |-> webhook, posts |-> sent.posts]
               ELSE [state |-> [state EXCEPT !.qc = item.guid],
                     res |-> Some(item.title),
                     webhook |-> webhook, posts |-> sent.posts]
    IN IF resp # "ok" THEN quiet(Err(resp, 0))
       ELSE IF Len(xml_items) = 0 THEN quiet(Err("no rss items", 0))
       ELSE IF \E k \in 1..Len(xml_items) : FromRss(xml_items[k], "parse_qc_desc") = <<>>
            THEN quiet(Err("xml -> rust", 0))
       ELSE LET rss_items == [k \in 1..Len(xml_items) |-> FromRss(xml_items[k], "parse_qc_desc")[1]]
                i == FirstMatch(rss_items, state.qc)
            IN IF rss_items[1].guid = state.qc THEN quiet(None)
               ELSE IF i # 0 THEN notify(rss_items[i - 1], FALSE)
               ELSE notify(rss_items[Len(rss_items)], TRUE)

\* smbc with a plausible slip of copying qc: the notified guid is stored in the
\* qc checkpoint
smbcShared(state, resp, xml_items, fail) ==
    LET quiet(res) == [state |-> state, res |-> res, webhook |-> <<>>, posts |-> <<>>]
        notify(item, potential_skip) ==
            LET webhook == RssWebhook(item, potential_skip, "SMBC")
                sent == Send(webhook[1], state.smbc_webhooks, fail)
            IN IF webhook = <<>> THEN quiet(Err("rust -> webhook", 0))
               ELSE IF ~sent.ok
               THEN [state |-> state, res |-> Err("error sending webhook", 0),
                     webhook |-> webhook, posts |-> sent.posts]
               ELSE [state |-> [state EXCEPT !.qc = item.guid],
                     res |-> Some(item.title),
                     webhook |-> webhook, posts |-> sent.posts]
    IN IF resp # "ok" THEN quiet(Err(resp, 0))
       ELSE IF Len(xml_items) = 0 THEN quiet(Err("no rss items", 0))
       ELSE IF \E k \in 1..Len(xml_items) : FromRss(xml_items[k], "parse_smbc_desc") = <<>>
            THEN quiet(Err("xml -> rust", 0))
       ELSE LET rss_items == [k \in 1..Len(xml_items) |-> FromRss(xml_items[k], "parse_smbc_desc")[1]]
                i == FirstMatch(rss_items, state.smbc)
            IN IF rss_items[1].guid = state.smbc THEN quiet(None)
               ELSE IF i # 0 THEN notify(rss_items[i - 1], FALSE)
               ELSE notify(rss_items[Len(rss_items)], TRUE)

\* async fn smbc: the same steps on the SMBC feed, checkpoint and URL list
smbc(state, resp, xml_items, fail) ==
    LET quiet(res) == [state |-> state, res |-> res, webhook |-> <<>>, posts |-> <<>>]
        notify(item, potential_skip) ==
            LET webhook == RssWebhook(item, potential_skip, "SMBC")
                sent == Send(webhook[1], state.smbc_webhooks, fail)
            IN IF webhook = <<>> THEN quiet(Err("rust -> webhook", 0))
               ELSE IF ~sent.ok
               THEN [state |-> state, res |-> Err("error sending webhook", 0),
                     webhook |-> webhook, posts |-> sent.posts]
               ELSE [state |-> [state EXCEPT !.smbc = item.guid],
                     res |-> Some(item.title),
                     webhook |-> webhook, posts |-> sent.posts]
    IN IF resp # "ok" THEN quiet(Err(resp, 0))
       ELSE IF Len(xml_items) = 0 THEN quiet(Err("no rss items", 0))
       ELSE IF \E k \in 1..Len(xml_items) : FromRss(xml_items[k], "parse_smbc_desc") = <<>>
            THEN quiet(Err("xml -> rust", 0))
       ELSE LET rss_items == [k \in 1..Len(xml_items) |-> FromRss(xml_items[k], "parse_smbc_desc")[1]]
                i == FirstMatch(rss_items, state.smbc)
            IN IF rss_items[1].guid = state.smbc THEN quiet(None)
               ELSE IF i # 0 THEN notify(rss_items[i - 1], FALSE)
               ELSE notify(rss_items[Len(rss_items)], TRUE)

\* Webhook::debug(fields): the four outcome strings of the run
DebugWebhook(fields) == [username |-> "ComicCron Debug", item |-> fields, content |-> ""]

\* ComicCronState::set: the record replaces the file unless the write fails
Set(state, disk, r) == IF r = "ok" THEN state ELSE disk

\* ------------------------------------------------------------------- state
VARIABLES
    pc,        \* where main is: idle (not running), xkcd, qc, smbc, save, debug
    runs,      \* runs of main started so far
    file,      \* comic_cron.json
    state,     \* main's ComicCronState
    out,       \* main's locals xkcd, qc, smbc, save
    built,     \* the Webhook each source built in this run, if any
    console,   \* what this run printed
    debugged,  \* the debug posts of this run that reached their URL
    posts,     \* every comic post that reached its URL, in order
    trace,     \* the calls main made in this run, in order
    mark,      \* Len(posts) when this run started
    loaded,    \* the record this run loaded
    prev,      \* out, built and state of the previous run, the feeds of the last run that ended
    latest,    \* the archive's latest num
    feed,      \* per RSS source, the guids of the window, newest first
    faulty,    \* the collaborators that can fail in this behaviour
    live,      \* the sources that publish in this behaviour
    quota,     \* how often cron starts main in this behaviour
    first,     \* file, latest and feed of the initial state
    doc,       \* the item elements read by the source called last, if it got any
    markup     \* the description the items of the feeds carry in this behaviour

vars == <<pc, runs, file, state, out, built, console, debugged, posts, trace,
          mark, loaded, prev, latest, feed, faulty, live, quota, first, doc, markup>>

Urls(name, n) == [i \in 1..n |-> <<name, i>>]

\* struct ComicCronState
ComicCronState(x, q, s, nx, nq, ns, nd) ==
    [xkcd |-> x, qc |-> q, smbc |-> s,
     xkcd_webhooks |-> Urls("xkcd", nx), qc_webhooks |-> Urls("qc", nq),
     smbc_webhooks |-> Urls("smbc", ns), debug_webhooks |-> Urls("debug", nd)]

\* an RSS window holds consecutive guids, newest first
Window(lo, hi) == [k \in 1..(hi - lo + 1) |-> hi - k + 1]
Windows == {Window(lo, hi) : lo \in 1..MaxGuid, hi \in 1..MaxGuid} \ {<<>>}

NoOut == [xkcd |-> NotRun, qc |-> NotRun, smbc |-> NotRun, save |-> NotRun]
NoBuilt == [xkcd |-> <<>>, qc |-> <<>>, smbc |-> <<>>]

\* the environment's choices: a fault is <<collaborator, error>>, and only the
\* faults in faulty happen in a behaviour
GetOutcomes(c) == {"ok"} \cup {e \in GetErrors : <<c, e>> \in faulty}
RssOutcomes(c) == {"ok"} \cup {e \in RssErrors : <<c, e>> \in faulty}
SendOutcomes(c, webhooks) ==
    IF <<c, "error sending webhook">> \in faulty THEN 0..Len(webhooks) ELSE {0}
DiskOutcomes(e) == {"ok"} \cup {x \in {e} : <<"disk", x>> \in faulty}

\* a description as macky_xml parses it inside <root>..</root>: the children of
\* the root, or a text complete_element rejects; src 0 is an absent attribute
Img(src) == [name |-> "img", src |-> src, kids |-> <<>>]
P(kids) == [name |-> "p", src |-> 0, kids |-> kids]
Description(children) == [parsed |-> TRUE, children |-> children]
Unparsable == [parsed |-> FALSE, children |-> <<>>]
Plain == Description(<<Img(1)>>)

\* the fragments of at most MaxNodes elements, two levels deep
Leaves == {Img(s) : s \in 0..MaxSrc} \cup {P(<<>>)}
Tops(n) ==
    {Img(s) : s \in 0..MaxSrc} \cup {P(kids) : kids \in UNION {[1..k -> Leaves] : k \in 0..(n - 1)}}
Size(node) == 1 + Len(node.kids)
Fragments ==
    {<<>>} \cup {<<a>> : a \in Tops(MaxNodes)}
    \cup {f \in {<<a, b>> : a \in Tops(MaxNodes - 1), b \in Tops(MaxNodes - 1)} :
            Size(f[1]) + Size(f[2]) <= MaxNodes}
Descriptions == {Unparsable} \cup {Description(f) : f \in Fragments}

\* the ways one item of a document can fail to become an RssItem
Flaws == {"malformed", "unparsable", "no img", "no src"}
Flawed(flaw) ==
    IF flaw = "unparsable" THEN Unparsable
    ELSE IF flaw = "no img" THEN Description(<<P(<<>>)>>)
    ELSE IF flaw = "no src" THEN Description(<<Img(0), Img(1)>>)
    ELSE markup
XmlItems(window, bad, flaw, undated) ==
    [k \in 1..Len(window) |->
        [guid |-> window[k],
         shape |-> IF k = bad /\ flaw = "malformed" THEN "malformed" ELSE "ok",
         description |-> IF k = bad THEN Flawed(flaw) ELSE markup,
         pub_date |-> IF k = undated THEN "other" ELSE "rfc2822"]]
Documents(c) ==
    {XmlItems(feed[c], 0, "malformed", 0)}
    \cup (IF <<c, "no rss items">> \in faulty THEN {<<>>} ELSE {})
    \cup {XmlItems(feed[c], b, flaw, 0) :
            b \in IF <<c, "xml -> rust">> \in faulty THEN 1..Len(feed[c]) ELSE {},
            flaw \in Flaws}
    \cup {XmlItems(feed[c], 0, "malformed", u) :
            u \in IF <<c, "rust -> webhook">> \in faulty THEN 1..Len(feed[c]) ELSE {}}

\* the faults of each collaborator
XkcdFaults == {<<"xkcd", e>> : e \in GetErrors \cup {"error sending webhook"}}
RssFaults(c) ==
    {<<c, e>> : e \in RssErrors \cup {"no rss items", "xml -> rust", "rust -> webhook",
                                     "error sending webhook"}}
DiskFaults == {<<"disk", "filesystem -> text">>, <<"disk", "text -> filesystem">>}
DebugFaults == {<<"debug", "error sending webhook">>}

Start(f, l, fd, fl, lv, q, m) ==
    /\ pc = "idle" /\ runs = 0
    /\ file = f /\ state = f /\ loaded = f
    /\ out = NoOut /\ built = NoBuilt /\ console = {} /\ debugged = <<>>
    /\ posts = <<>> /\ trace = <<>> /\ mark = 0
    /\ prev = [out |-> NoOut, built |-> NoBuilt, state |-> f, feed |-> fd]
    /\ latest = l /\ feed = fd /\ faulty = fl /\ live = lv /\ quota = q
    /\ first = [file |-> f, latest |-> l, feed |-> fd]
    /\ doc = <<>> /\ markup = m

\* ------------------------------------------------------------------ main
\* main with a plausible slip: "?" on a source's result, so an error ends the run
AfterAbort(res, next) == IF res.tag = "Err" THEN "idle" ELSE next

\* main, lines 318-321: each result is only formatted, never inspected, so the
\* next call follows whatever the result is
After(res, next) == next

\* main, line 315: ComicCronState::get(). When get fails the run only prints
\* the error; state and loaded then stand for a record main never holds.
Load ==
    /\ pc = "idle" /\ runs < quota
    /\ \E r \in DiskOutcomes("filesystem -> text") :
         /\ runs' = runs + 1
         /\ prev' = [out |-> out, built |-> built, state |-> state, feed |-> prev.feed]
         /\ out' = NoOut /\ built' = NoBuilt /\ debugged' = <<>>
         /\ trace' = <<"get">> /\ mark' = Len(posts)
         /\ state' = file /\ loaded' = file /\ doc' = <<>>
         /\ pc' = IF r = "ok" THEN "xkcd" ELSE "idle"
         /\ console' = IF r = "ok" THEN {} ELSE {"Error loading state"}
    /\ UNCHANGED <<file, posts, latest, feed, faulty, live, quota, first, markup>>

\* main, line 318
RunXkcd ==
    /\ pc = "xkcd"
    /\ \E r1 \in GetOutcomes("xkcd"), r2 \in GetOutcomes("xkcd"),
          fail \in SendOutcomes("xkcd", state.xkcd_webhooks) :
         LET r == xkcd(state, latest, r1, r2, fail)
         IN /\ state' = r.state
            /\ out' = [out EXCEPT !.xkcd = r.res]
            /\ built' = [built EXCEPT !.xkcd = r.webhook]
            /\ posts' = posts \o r.posts
    /\ trace' = Append(trace, "xkcd") /\ doc' = <<>>
    /\ pc' = After(out'.xkcd, "qc")
    /\ UNCHANGED <<mark, runs, file, console, debugged, loaded, prev, latest, feed,
                   faulty, live, quota, first, markup>>

\* main, line 319
RunQc ==
    /\ pc = "qc"
    /\ \E resp \in RssOutcomes("qc"), xml_items \in Documents("qc"),
          fail \in SendOutcomes("qc", state.qc_webhooks) :
         LET r == qc(state, resp, xml_items, fail)
         IN /\ doc' = IF resp = "ok" THEN <<xml_items>> ELSE <<>>
            /\ state' = r.state
            /\ out' = [out EXCEPT !.qc = r.res]
            /\ built' = [built EXCEPT !.qc = r.webhook]
            /\ posts' = posts \o r.posts
    /\ trace' = Append(trace, "qc")
    /\ pc' = After(out'.qc, "smbc")
    /\ UNCHANGED <<mark, runs, file, console, debugged, loaded, prev, latest, feed,
                   faulty, live, quota, first, markup>>

\* main, line 320
RunSmbc ==
    /\ pc = "smbc"
    /\ \E resp \in RssOutcomes("smbc"), xml_items \in Documents("smbc"),
          fail \in SendOutcomes("smbc", state.smbc_webhooks) :
         LET r == smbc(state, resp, xml_items, fail)
         IN /\ doc' = IF resp = "ok" THEN <<xml_items>> ELSE <<>>
            /\ state' = r.state
            /\ out' = [out EXCEPT !.smbc = r.res]
            /\ built' = [built EXCEPT !.smbc = r.webhook]
            /\ posts' = posts \o r.posts
    /\ trace' = Append(trace, "smbc")
    /\ pc' = After(out'.smbc, "save")
    /\ UNCHANGED <<mark, runs, file, console, debugged, loaded, prev, latest, feed,
                   faulty, live, quota, first, markup>>

\* main, line 321: state.set()
Save ==
    /\ pc = "save"
    /\ \E r \in DiskOutcomes("text -> filesystem") :
         /\ file' = Set(state, file, r)
         /\ out' = [out EXCEPT !.save = IF r = "ok" THEN None ELSE Err(r, 0)]
    /\ trace' = Append(trace, "set") /\ doc' = <<>>
    /\ pc' = After(out'.save, "debug")
    /\ UNCHANGED <<mark, runs, state, built, console, debugged, posts, loaded, prev,
                   latest, feed, faulty, live, quota, first, markup>>

\* main, lines 323-350: the debug webhook, and the console when it fails
Debug ==
    /\ pc = "debug"
    /\ \E fail \in SendOutcomes("debug", state.debug_webhooks) :
         LET sent == Send(DebugWebhook(out), state.debug_webhooks, fail)
         IN /\ debugged' = sent.posts
            /\ console' = IF sent.ok THEN {}
                          ELSE {"xkcd", "qc", "smbc", "save", "Error sending debug webhook"}
    /\ trace' = Append(trace, "debug")
    /\ prev' = [prev EXCEPT !.feed = feed]
    /\ pc' = "idle"
    /\ UNCHANGED <<mark, runs, file, state, out, built, posts, loaded, latest,
                   feed, faulty, live, quota, first, doc, markup>>

\* ------------------------------------------------------------ environment
\* the archive publishes its next entry (between runs)
PublishXkcd ==
    /\ pc = "idle" /\ "xkcd" \in live /\ latest < MaxNum
    /\ latest' = latest + 1
    /\ UNCHANGED <<mark, pc, runs, file, state, out, built, console, debugged, posts, trace,
                   loaded, prev, feed, faulty, live, quota, first, doc, markup>>

\* an RSS feed puts its next item in front and keeps MaxWin items
PublishRss(c) ==
    /\ pc = "idle" /\ c \in live /\ feed[c][1] < MaxGuid
    /\ feed' = [feed EXCEPT ![c] =
                    SubSeq(<<feed[c][1] + 1>> \o feed[c], 1, Min(Len(feed[c]) + 1, MaxWin))]
    /\ UNCHANGED <<mark, pc, runs, file, state, out, built, console, debugged, posts, trace,
                   loaded, prev, latest, faulty, live, quota, first, doc, markup>>

\* the sinks are back: no delivery fails from here on
Recovered == \A c \in {"xkcd", "qc", "smbc"} : <<c, "error sending webhook">> \notin faulty

\* an outage of the sinks ends (between runs)
Repair ==
    /\ pc = "idle" /\ ~Recovered
    /\ faulty' = faulty \ {<<c, "error sending webhook">> : c \in {"xkcd", "qc", "smbc"}}
    /\ UNCHANGED <<mark, pc, runs, file, state, out, built, console, debugged, posts, trace,
                   loaded, prev, latest, feed, live, quota, first, doc, markup>>

\* cron where an outage ends within the runs the bound allows: the last of
\* them starts once the sinks are back
Cron == Load /\ (runs + 1 < quota \/ Recovered)

\* an RSS feed drops its oldest item
DropRss(c) ==
    /\ pc = "idle" /\ c \in live /\ Len(feed[c]) > 1
    /\ feed' = [feed EXCEPT ![c] = SubSeq(feed[c], 1, Len(feed[c]) - 1)]
    /\ UNCHANGED <<mark, pc, runs, file, state, out, built, console, debugged, posts, trace,
                   loaded, prev, latest, faulty, live, quota, first, doc, markup>>

Main == Load \/ RunXkcd \/ RunQc \/ RunSmbc \/ Save \/ Debug

\* ---------------------------------------------------------- specifications
\* the numeric source under test: any checkpoint against any archive
InitXkcd ==
    \E c \in 0..MaxNum, l \in 1..MaxNum, n \in 0..MaxUrls,
       fl \in {{}} \cup {{f} : f \in XkcdFaults} :
        Start(ComicCronState(c, 1, 1, n, 1, 1, 1), l,
              [qc |-> <<1>>, smbc |-> <<1>>], fl, {"xkcd"}, MaxRuns, Plain)

\* one guid-ordered source under test: any window against any checkpoint; a
\* behaviour with a fault has the longest URL list, so every position can fail
InitRss ==
    \E c \in {"qc", "smbc"}, w \in {v \in Windows : Len(v) <= MaxWin}, n \in 0..MaxUrls :
      \E g \in 0..w[1],
         fl \in {{}} \cup {{f} : f \in RssFaults(c)}
                \cup {{<<c, "error sending webhook">>, <<"disk", "text -> filesystem">>}} :
        /\ fl # {} => n = MaxUrls
        /\ Start(ComicCronState(1, IF c = "qc" THEN g ELSE 1, IF c = "smbc" THEN g ELSE 1,
                                1, IF c = "qc" THEN n ELSE 1, IF c = "smbc" THEN n ELSE 1, 1),
                 1, [qc |-> IF c = "qc" THEN w ELSE <<1>>,
                     smbc |-> IF c = "smbc" THEN w ELSE <<1>>], fl, {c}, MaxRuns, Plain)

\* the three sources together, each with an update to report and each
\* collaborator with one way to fail: an xkcd fault paired with an RSS fault
FaultPairs ==
    {<<"url -> request", "url -> request">>, <<"request -> text", "request -> text">>,
     <<"text -> json", "text -> xml">>, <<"json -> rust", "no rss items">>,
     <<"error sending webhook", "xml -> rust">>,
     <<"error sending webhook", "rust -> webhook">>,
     <<"error sending webhook", "error sending webhook">>}
InitAll ==
    \E fp \in FaultPairs, nd \in 0..1 :
        Start(ComicCronState(0, 1, NoGuid, MaxUrls, 1, 1, nd), 2,
              [qc |-> <<2, 1>>, smbc |-> <<2, 1>>],
              {<<"xkcd", fp[1]>>, <<"qc", fp[2]>>, <<"smbc", fp[2]>>}
                  \cup DiskFaults \cup DebugFaults,
              {}, MaxRuns - 1, Plain)

Init == InitXkcd \/ InitRss \/ InitAll

Next == Main \/ PublishXkcd \/ \E c \in {"qc", "smbc"} : PublishRss(c)

Spec == Init /\ [][Next]_vars
SpecXkcd == InitXkcd /\ [][Main \/ PublishXkcd]_vars
SpecRss == InitRss /\ [][Main \/ \E c \in {"qc", "smbc"} : PublishRss(c)]_vars
SpecAll == InitAll /\ [][Main]_vars


\* one source under test whose sink fails for a while and then recovers, the
\* archive and the feeds standing still
InitRetry ==
    \E c \in {"xkcd", "qc", "smbc"}, n \in {MaxUrls}, x \in 0..MaxNum, l \in 1..MaxNum,
       w \in {Window(1, hi) : hi \in 1..MaxWin} :
      \E g \in 0..w[1] :
        /\ c = "xkcd" => w = <<1>> /\ g = 1
        /\ c # "xkcd" => x = 1 /\ l = 1
        /\ Start(ComicCronState(x, IF c = "qc" THEN g ELSE 1, IF c = "smbc" THEN g ELSE 1,
                                IF c = "xkcd" THEN n ELSE 1, IF c = "qc" THEN n ELSE 1,
                                IF c = "smbc" THEN n ELSE 1, 1),
                 l, [qc |-> IF c = "qc" THEN w ELSE <<1>>,
                     smbc |-> IF c = "smbc" THEN w ELSE <<1>>],
                 {<<c, "error sending webhook">>}, {}, MaxRuns, Plain)

\* one run of a guid-ordered source on a feed whose items carry a description
\* of any shape
InitDesc ==
    \E c \in {"qc", "smbc"}, g \in 0..1, d \in Descriptions :
        Start(ComicCronState(1, IF c = "qc" THEN g ELSE 1, IF c = "smbc" THEN g ELSE 1,
                             1, 1, 1, 1),
              1, [qc |-> IF c = "qc" THEN <<2, 1>> ELSE <<1>>,
                  smbc |-> IF c = "smbc" THEN <<2, 1>> ELSE <<1>>], {}, {}, 1, d)
SpecDesc == InitDesc /\ [][Main]_vars


\* one guid-ordered source on a feed that moves on between the runs, putting
\* new items in front and dropping old ones; nothing fails
InitFeed ==
    \E c \in {"qc", "smbc"}, w \in {v \in Windows : Len(v) <= MaxWin}, n \in {0, MaxUrls} :
      \E g \in 0..w[1] :
        Start(ComicCronState(1, IF c = "qc" THEN g ELSE 1, IF c = "smbc" THEN g ELSE 1,
                             1, IF c = "qc" THEN n ELSE 1, IF c = "smbc" THEN n ELSE 1, 1),
              1, [qc |-> IF c = "qc" THEN w ELSE <<1>>,
                  smbc |-> IF c = "smbc" THEN w ELSE <<1>>], {}, {c}, MaxRuns, Plain)
SpecFeed ==
    InitFeed /\ [][Main \/ \E c \in {"qc", "smbc"} : PublishRss(c) \/ DropRss(c)]_vars
\* cron starts main again and again and a run goes on to its end; the outage ends
SpecRetry ==
    /\ InitRetry
    /\ [][Cron \/ RunXkcd \/ RunQc \/ RunSmbc \/ Save \/ Debug \/ Repair]_vars
    /\ WF_vars(Cron \/ RunXkcd \/ RunQc \/ RunSmbc \/ Save \/ Debug)
    /\ WF_vars(Repair)
\* ------------------------------------------------------------------ claims
\* what the properties read
\* main has called c in the run under way (the environment moves between runs)
Ran(c) == pc # "idle" /\ \E k \in 1..Len(trace) : trace[k] = c
ThisRun == SubSeq(posts, mark + 1, Len(posts))
From(c, ps) == SelectSeq(ps, LAMBDA p : p.url[1] = c)
At(u, ps) == SelectSeq(ps, LAMBDA p : p.url = u)
Items(ps) == [k \in 1..Len(ps) |-> ps[k].msg.item]
UrlsOf(c) ==
    IF c = "xkcd" THEN state.xkcd_webhooks
    ELSE IF c = "qc" THEN state.qc_webhooks ELSE state.smbc_webhooks
Completed == pc = "idle" /\ Len(trace) > 1

\* C1: numeric catch-up. With the archive's latest number L held fixed, a start
\* checkpoint c <= L and no failing run, after k completed runs the checkpoint
\* is min(c + k, L): it reaches L after exactly L - c runs. Every URL has then
\* received c+1, c+2, ..., each once and in increasing order, the k-th run
\* reports Some(c + k) while c + k <= L, and every later run reports None.
C1_CatchUp ==
    LET c == first.file.xkcd
        L == first.latest
        now == Min(c + runs, L)
    IN (Completed /\ faulty = {} /\ latest = L /\ c <= L) =>
         /\ file.xkcd = now
         /\ out.xkcd = IF c + runs <= L THEN Some(c + runs) ELSE None
         /\ \A k \in 1..Len(file.xkcd_webhooks) :
              Items(At(file.xkcd_webhooks[k], posts)) = [j \in 1..(now - c) |-> c + j]

C1_Witness ==
    /\ Completed /\ faulty = {} /\ latest = first.latest
    /\ first.file.xkcd + 2 <= first.latest
    /\ runs = first.latest - first.file.xkcd + 1
    /\ out.xkcd = None /\ file.xkcd = latest
    /\ Len(file.xkcd_webhooks) = MaxUrls /\ Len(posts) >= 2 * MaxUrls

\* C8: numeric source behind by more than one (c + 1 < L). The run asks for
\* entry c+1 by index: the webhook it builds is that of entry c+1, never of L,
\* and never carries the skip marker; the result is Some(c+1) with the
\* checkpoint at c+1, or an error with the checkpoint still c; an error of the
\* by-index fetch names index c+1. The checkpoint is never L after the run.
C8_Behind ==
    LET c == loaded.xkcd
    IN (Ran("xkcd") /\ c + 1 < latest) =>
         /\ out.xkcd.tag \in {"Some", "Err"}
         /\ out.xkcd.tag = "Some" => out.xkcd = Some(c + 1) /\ state.xkcd = c + 1
         /\ out.xkcd.tag = "Err" =>
              /\ state.xkcd = c
              /\ out.xkcd.n \in {0, c + 1}
              /\ out.xkcd.e = "error sending webhook" => built.xkcd # <<>>
         /\ built.xkcd # <<>> => built.xkcd[1] = XkcdWebhook(c + 1)
         /\ built.xkcd # <<>> => built.xkcd[1].content # SKIPPED
         /\ \A k \in 1..Len(From("xkcd", ThisRun)) :
              From("xkcd", ThisRun)[k].msg = XkcdWebhook(c + 1)
         /\ state.xkcd # latest
         /\ faulty = {} => out.xkcd = Some(c + 1)

C8_Witness ==
    /\ pc = "qc" /\ loaded.xkcd + 1 < latest
    /\ out.xkcd = Some(loaded.xkcd + 1) /\ state.xkcd = loaded.xkcd + 1
    /\ Len(From("xkcd", ThisRun)) = MaxUrls

\* C9: numeric source with the checkpoint current or ahead (c + 1 > L). The
\* run makes no by-index fetch, builds and posts nothing and leaves the
\* checkpoint alone; its result is None, or the error of the latest fetch (the
\* only call that can fail), never an error of a by-index fetch or a delivery.
C9_Ahead ==
    LET c == loaded.xkcd
    IN (Ran("xkcd") /\ c + 1 > latest) =>
         /\ state.xkcd = c
         /\ built.xkcd = <<>>
         /\ From("xkcd", ThisRun) = <<>>
         /\ out.xkcd.tag \in {"None", "Err"}
         /\ out.xkcd.tag = "Err" => out.xkcd.n = 0 /\ out.xkcd.e \in GetErrors
         /\ (\A e \in GetErrors : <<"xkcd", e>> \notin faulty) => out.xkcd = None

C9_Witness ==
    /\ pc = "qc" /\ loaded.xkcd > latest
    /\ out.xkcd = None /\ state.xkcd = loaded.xkcd
    /\ <<"xkcd", "error sending webhook">> \in faulty

\* the post of c's webhook reached every URL of c's list in this run
Delivered(c) ==
    /\ built[c] # <<>>
    /\ \A k \in 1..Len(UrlsOf(c)) :
         \E j \in (mark + 1)..Len(posts) :
            posts[j] = [url |-> UrlsOf(c)[k], msg |-> built[c][1]]

\* C3: a source's checkpoint field differs from the loaded one only when
\* Webhook::send has returned Ok for the source's webhook, after posting it to
\* every URL of the list, and then it is the item of that webhook; whenever the
\* source's result is an error (of any stage) or None, or the source has not
\* run, the field is the loaded one.
C3_CheckpointAfterSend ==
    \A c \in {"xkcd", "qc", "smbc"} :
        /\ out[c].tag # "Some" => state[c] = loaded[c]
        /\ state[c] # loaded[c] =>
             /\ out[c].tag = "Some"
             /\ Delivered(c)
             /\ state[c] = built[c][1].item
             /\ out[c].n = built[c][1].item
        /\ out[c].tag = "Some" => Delivered(c) /\ state[c] # loaded[c]

C3_Witness ==
    /\ pc = "save"
    /\ out.xkcd = Err("error sending webhook", 0)
    /\ Len(From("xkcd", ThisRun)) = 1 /\ state.xkcd = loaded.xkcd
    /\ out.qc.tag = "Err" /\ out.qc.e = "xml -> rust" /\ state.qc = loaded.qc
    /\ out.smbc.tag = "Some" /\ state.smbc # loaded.smbc
    /\ state.smbc = built.smbc[1].item

\* C10: a run that loaded its record calls xkcd, qc, smbc in this order, then
\* set once, whatever each result is; the record handed to set holds, per
\* source, the notified item where the result is Some and the loaded
\* checkpoint otherwise (URL lists as loaded); when set returns Ok the file is
\* that record, and when it fails the file is still the loaded one.
C10_Isolation ==
    Completed =>
        /\ trace = <<"get", "xkcd", "qc", "smbc", "set", "debug">>
        /\ \A c \in {"xkcd", "qc", "smbc"} :
             /\ out[c].tag \in {"None", "Some", "Err"}
             /\ state[c] = IF out[c].tag = "Some" THEN built[c][1].item ELSE loaded[c]
        /\ \A l \in {"xkcd_webhooks", "qc_webhooks", "smbc_webhooks", "debug_webhooks"} :
             state[l] = loaded[l]
        /\ out.save.tag \in {"None", "Err"}
        /\ out.save = None => file = state
        /\ out.save.tag = "Err" => file = loaded

C10_Witness ==
    /\ Completed
    /\ out.xkcd.tag = "Err" /\ out.qc.tag = "Err" /\ out.smbc.tag = "Some"
    /\ out.save = None
    /\ file.smbc # loaded.smbc /\ file.xkcd = loaded.xkcd /\ file.qc = loaded.qc

\* the guid-ordered sources, and what their properties read
Rss == {"qc", "smbc"}
Sound(c) == faulty \cap RssFaults(c) = {}
Index(w, g) == CHOOSE i \in 1..Len(w) : w[i] = g
Absent(w, g) == \A k \in 1..Len(w) : w[k] # g
Oldest(w) == w[Len(w)]
\* the posts of c in this run are those of its one webhook, one per URL at most
OneWebhook(c) ==
    /\ Len(From(c, ThisRun)) <= Len(UrlsOf(c))
    /\ \A k \in 1..Len(From(c, ThisRun)) :
         /\ built[c] # <<>>
         /\ From(c, ThisRun)[k] = [url |-> UrlsOf(c)[k], msg |-> built[c][1]]

\* C4: guid-ordered source with the checkpoint inside the window (items[0] is
\* not the checkpoint, items[i] is, i >= 1). The only webhook the run builds and
\* posts is that of items[i-1], without the skip marker; the result is
\* Some(items[i-1]) with the checkpoint set to its guid, or an error; when
\* nothing fails it is Some(items[i-1]) and every URL has received the item.
C4_Inside ==
    \A c \in Rss :
        LET w == feed[c]
            g == loaded[c]
        IN (Ran(c) /\ w[1] # g /\ ~Absent(w, g)) =>
             LET newer == w[Index(w, g) - 1]
             IN /\ out[c].tag \in {"Some", "Err"}
                /\ built[c] # <<>> =>
                      built[c][1].item = newer /\ built[c][1].content = ""
                /\ OneWebhook(c)
                /\ out[c].tag = "Some" =>
                      out[c] = Some(newer) /\ state[c] = newer /\ Delivered(c)
                /\ Sound(c) =>
                      out[c] = Some(newer) /\ Len(From(c, ThisRun)) = Len(UrlsOf(c))

C4_Witness ==
    /\ pc = "save" /\ Len(feed.smbc) = MaxWin
    /\ loaded.smbc = feed.smbc[MaxWin]
    /\ out.smbc = Some(feed.smbc[MaxWin - 1]) /\ state.smbc = feed.smbc[MaxWin - 1]
    /\ built.smbc[1].content = ""
    /\ Len(From("smbc", ThisRun)) = MaxUrls

\* C5: guid-ordered source, gap recovery. When the checkpoint is unset or is
\* the guid of no item of the window, the only webhook the run builds and posts
\* is that of the oldest item items[n-1], with the skip marker; the result is
\* Some(items[n-1]) with the checkpoint set to its guid, or an error. A webhook
\* carries the skip marker in this case only.
C5_Gap ==
    \A c \in Rss :
        LET w == feed[c]
            g == loaded[c]
        IN Ran(c) =>
             /\ Absent(w, g) =>
                  /\ out[c].tag \in {"Some", "Err"}
                  /\ built[c] # <<>> =>
                        built[c][1].item = Oldest(w) /\ built[c][1].content = SKIPPED
                  /\ OneWebhook(c)
                  /\ out[c].tag = "Some" =>
                        out[c] = Some(Oldest(w)) /\ state[c] = Oldest(w) /\ Delivered(c)
                  /\ Sound(c) =>
                        out[c] = Some(Oldest(w)) /\ Len(From(c, ThisRun)) = Len(UrlsOf(c))
             /\ (built[c] # <<>> /\ built[c][1].content = SKIPPED) => Absent(w, g)
             /\ \A k \in 1..Len(From(c, ThisRun)) :
                  From(c, ThisRun)[k].msg.content = SKIPPED => Absent(w, g)

C5_Witness ==
    /\ pc = "smbc" /\ Len(feed.qc) = MaxWin
    /\ loaded.qc # NoGuid /\ Absent(feed.qc, loaded.qc)
    /\ out.qc = Some(feed.qc[MaxWin]) /\ state.qc = feed.qc[MaxWin]
    /\ built.qc[1].content = SKIPPED
    /\ Len(From("qc", ThisRun)) = MaxUrls

\* C6: guid-ordered source whose newest item is the checkpoint. The run builds
\* no webhook, posts nothing and leaves the checkpoint alone; its result is
\* None, or the error of the fetch, the document or an item's construction.
C6_Head ==
    \A c \in Rss :
        LET w == feed[c]
            g == loaded[c]
        IN (Ran(c) /\ w[1] = g) =>
             /\ built[c] = <<>>
             /\ From(c, ThisRun) = <<>>
             /\ state[c] = g
             /\ out[c].tag \in {"None", "Err"}
             /\ out[c].tag = "Err" =>
                  out[c].e \in RssErrors \cup {"no rss items", "xml -> rust"}
             /\ (\A e \in RssErrors \cup {"no rss items", "xml -> rust"} :
                    <<c, e>> \notin faulty) => out[c] = None

C6_Witness ==
    /\ pc = "smbc" /\ Len(feed.qc) = MaxWin /\ feed.qc[1] = loaded.qc
    /\ out.qc = None /\ state.qc = loaded.qc
    /\ <<"qc", "error sending webhook">> \in faulty
    /\ Len(state.qc_webhooks) = MaxUrls

\* the run under way re-runs c right after a run that notified an item found by
\* the scan (no skip marker) and saved it, against the same window
Rerun(c) ==
    /\ Ran(c) /\ runs >= 2
    /\ prev.out[c].tag = "Some" /\ prev.built[c][1].content = ""
    /\ prev.feed[c] = feed[c]
    /\ loaded[c] = prev.state[c]

\* C7 as claimed: such a re-run never has a second Some result (stated for the
\* sources that have a sink to notify).
C7_Original == \A c \in Rss : (Rerun(c) /\ UrlsOf(c) # <<>>) => out[c].tag # "Some"

\* C7, amended: the re-run returns None exactly when the item notified before
\* is the newest of the window (the checkpoint was at index 1); when the
\* checkpoint was at index i >= 2 the re-run builds the webhook of items[i-2],
\* the next newer item, without the skip marker, and returns Some(items[i-2])
\* unless something fails. In no case does it post the same item again.
C7_Rerun ==
    \A c \in Rss :
        LET w == feed[c]
            p == prev.out[c].n
        IN Rerun(c) =>
             /\ p = loaded[c] /\ ~Absent(w, p)
             /\ \A k \in 1..Len(From(c, ThisRun)) : From(c, ThisRun)[k].msg.item # p
             /\ w[1] = p => out[c].tag \in {"None", "Err"} /\ built[c] = <<>>
             /\ (w[1] = p /\ Sound(c)) => out[c] = None
             /\ w[1] # p =>
                  /\ out[c].tag \in {"Some", "Err"}
                  /\ built[c] # <<>> =>
                       /\ built[c][1].item = w[Index(w, p) - 1]
                       /\ built[c][1].content = ""
                  /\ Sound(c) => out[c] = Some(w[Index(w, p) - 1])

C7_Witness ==
    /\ pc = "smbc" /\ Rerun("qc") /\ runs = 2
    /\ Len(feed.qc) = MaxWin /\ prev.out.qc = Some(feed.qc[2])
    /\ out.qc = Some(feed.qc[1]) /\ state.qc = feed.qc[1]
    /\ Len(From("qc", posts)) = 2 * MaxUrls

\* the sinks of a source, and what has been saved for it
Sinks(c) ==
    IF c = "xkcd" THEN file.xkcd_webhooks
    ELSE IF c = "qc" THEN file.qc_webhooks ELSE file.smbc_webhooks
Received(c, k) == At(Sinks(c)[k], posts)
Retrying(c) ==
    <<c, "error sending webhook">> \in faulty \/ <<"disk", "text -> filesystem">> \in faulty

\* C2 as claimed: no sink ever receives the same item twice, and every item
\* between the first checkpoint and the saved one has been delivered to every
\* sink of its source.
C2_Original ==
    /\ \A j \in 1..Len(posts), k \in 1..Len(posts) :
         (j < k /\ posts[j].url = posts[k].url) => posts[j].msg.item # posts[k].msg.item
    /\ \A c \in {"xkcd", "qc", "smbc"} :
         \A k \in 1..Len(Sinks(c)) :
            \A x \in (first.file[c] + 1)..file[c] :
               first.file[c] # NoGuid =>
                  \E j \in 1..Len(Received(c, k)) : Received(c, k)[j].msg.item = x

\* C2, amended: delivery is at least once per sink, in publication order. For
\* every sink of a source the items it receives never go back; a step over an
\* item (from the first checkpoint, or from the item before) is made only by a
\* post that carries the skip marker; a saved checkpoint that differs from the
\* first names an item every sink of the list has received; and an item is
\* repeated at a sink only in behaviours where a delivery of the source or the
\* save can fail.
C2_AtLeastOnce ==
    \A c \in {"xkcd", "qc", "smbc"} :
        \A k \in 1..Len(Sinks(c)) :
            LET got == Received(c, k)
            IN /\ \A j \in 1..Len(got) :
                    LET before == IF j = 1 THEN first.file[c] ELSE got[j - 1].msg.item
                    IN /\ got[j].msg.item >= before
                       /\ j = 1 => got[j].msg.item > before
                       /\ got[j].msg.item > before + 1 => got[j].msg.content = SKIPPED
                       /\ (j > 1 /\ got[j].msg.item = before) => Retrying(c)
               /\ file[c] # first.file[c] =>
                    \E j \in 1..Len(got) : got[j].msg.item = file[c]

C2_Witness ==
    /\ Completed /\ runs = 2 /\ Len(file.xkcd_webhooks) = 2
    /\ Len(Received("xkcd", 1)) = 2 /\ Len(Received("xkcd", 2)) = 1
    /\ Received("xkcd", 1)[1].msg = Received("xkcd", 1)[2].msg
    /\ file.xkcd = first.file.xkcd + 1
    /\ Len(Received("smbc", 1)) = 2
    /\ Received("smbc", 1)[1].msg.content = SKIPPED
    /\ Received("smbc", 1)[2].msg.content = ""


\* the webhook c built in the run under way did not reach every URL of its list
Failed(c) == Ran(c) /\ built[c] # <<>> /\ ~Delivered(c)
\* the run under way runs c after a run whose delivery for c failed
Reattempt(c) ==
    /\ Ran(c) /\ runs >= 2
    /\ prev.out[c] = Err("error sending webhook", 0)
    /\ prev.feed = feed
\* c has notified the item whose delivery failed in the run before: the webhook
\* is the same, the result names the item, the checkpoint on disk is the item
\* and every sink of c has received it
Notified(c) ==
    /\ prev.out[c] = Err("error sending webhook", 0) /\ built[c] = prev.built[c]
    /\ out[c].tag = "Some" /\ file[c] = out[c].n
    /\ \A k \in 1..Len(Sinks(c)) :
         \E j \in 1..Len(Received(c, k)) : Received(c, k)[j].msg.item = out[c].n

\* C11: a failed delivery is reported and retried. When the webhook of an item
\* does not reach every URL, the source's result is the delivery error and the
\* checkpoint stays the loaded one; the run after it (feed unchanged) loads the
\* same checkpoint, builds the same webhook and attempts it again, with the
\* item as its result when the delivery succeeds; and a failed delivery leads to
\* a run that notifies it: once the sinks recover the item reaches every URL
\* and the saved checkpoint becomes that item (one source has a failing sink
\* in a behaviour).
C11_Retry ==
    /\ [](\A c \in {"xkcd", "qc", "smbc"} :
            /\ Failed(c) =>
                 out[c] = Err("error sending webhook", 0) /\ state[c] = loaded[c]
            /\ Reattempt(c) =>
                 /\ loaded[c] = prev.state[c]
                 /\ built[c] = prev.built[c]
                 /\ out[c] \in {Some(built[c][1].item), Err("error sending webhook", 0)})
    /\ (\E c \in {"xkcd", "qc", "smbc"} : Failed(c))
          ~> (\E c \in {"xkcd", "qc", "smbc"} : Notified(c))

C11_Witness ==
    /\ Completed /\ runs = MaxRuns /\ Recovered
    /\ prev.out.qc = Err("error sending webhook", 0)
    /\ out.qc.tag = "Some" /\ file.qc = out.qc.n /\ file.qc # first.file.qc
    /\ Len(file.qc_webhooks) = MaxUrls
    /\ Len(Received("qc", 1)) = MaxRuns /\ Len(Received("qc", 2)) = 1
    /\ Received("qc", 1)[1].msg = Received("qc", 1)[MaxRuns].msg

\* what the end of a run shows the operator
ErrorOutcome == \E k \in {"xkcd", "qc", "smbc", "save"} : out[k].tag = "Err"
LoadFailed == pc = "idle" /\ trace = <<"get">>
InDebugSink == \E j \in 1..Len(debugged) : debugged[j].msg = DebugWebhook(out)
OnConsole == {"xkcd", "qc", "smbc", "save"} \subseteq console

\* C12: every error outcome is visible. A run that ends with an error outcome
\* of a source or of the save has posted its report to a debug URL or printed
\* the outcomes on the console, and a run whose load failed has printed the
\* error.
C12_Reported ==
    /\ (Completed /\ ErrorOutcome) => (InDebugSink \/ OnConsole)
    /\ LoadFailed => "Error loading state" \in console

\* a run with an empty debug URL list ends with errors nobody is shown
C12_Silent ==
    /\ Completed /\ state.debug_webhooks = <<>>
    /\ out.xkcd.tag = "Err" /\ out.qc.tag = "Err" /\ out.smbc.tag = "Err"
    /\ out.save.tag = "Err"
    /\ debugged = <<>> /\ console = {}

\* the source c has just returned; it had obtained a document
Returned(c) == pc = (IF c = "qc" THEN "smbc" ELSE "save")
Read(c) == Returned(c) /\ doc # <<>>
Parse(c, data) == IF c = "qc" THEN parse_qc_desc(data) ELSE parse_smbc_desc(data)

\* C13: guid-ordered source whose document has no item element. The result is
\* the error "no rss items", never None; no webhook is built, nothing is posted
\* and the checkpoint is the loaded one. The error is returned in this case only.
C13_NoItems ==
    \A c \in Rss :
        /\ (Read(c) /\ doc[1] = <<>>) =>
             /\ out[c] = Err("no rss items", 0)
             /\ built[c] = <<>> /\ From(c, ThisRun) = <<>>
             /\ state[c] = loaded[c]
        /\ (Returned(c) /\ out[c].e = "no rss items") => Read(c) /\ doc[1] = <<>>

C13_Witness ==
    /\ Read("qc") /\ doc[1] = <<>>
    /\ out.qc = Err("no rss items", 0) /\ state.qc = loaded.qc
    /\ loaded.qc # NoGuid /\ loaded.qc # feed.qc[1]
    /\ Len(state.qc_webhooks) = MaxUrls /\ runs = 2

\* the places of a fragment's elements: <<k, 0>> is the k-th child of the root,
\* <<k, j>> the j-th child of that element; document order on them
Places(data) ==
    {<<k, 0>> : k \in 1..Len(data)}
    \cup UNION {{<<k, j>> : j \in 1..Len(data[k].kids)} : k \in 1..Len(data)}
NodeAt(data, p) == IF p[2] = 0 THEN data[p[1]] ELSE data[p[1]].kids[p[2]]
Before(p, q) == p[1] < q[1] \/ (p[1] = q[1] /\ p[2] < q[2])
ImgPlaces(data) == {p \in Places(data) : NodeAt(data, p).name = "img"}
FirstImg(data) ==
    CHOOSE p \in ImgPlaces(data) : \A q \in ImgPlaces(data) : p = q \/ Before(p, q)

\* C14: field extraction. On the children of the synthetic root the description
\* function returns the src of the img element that comes first in document
\* order, at whatever depth it sits, with an empty alt text; it fails when the
\* fragment has no img or that first img has no src (a later img with a src does
\* not help). The item is then not built and the source returns "xml -> rust";
\* otherwise the webhook's image is that src and its footer text is empty.
C14_FirstImg ==
    \A c \in Rss :
        Read(c) =>
            LET data == markup.children
                found == Parse(c, data)
                imgs == ImgPlaces(data)
                wanted == IF imgs = {} THEN 0 ELSE NodeAt(data, FirstImg(data)).src
            IN /\ found = IF wanted = 0 THEN <<>> ELSE << <<wanted, "">> >>
               /\ \A k \in 1..Len(doc[1]) : doc[1][k].description = markup
               /\ (~markup.parsed \/ wanted = 0) =>
                     out[c] = Err("xml -> rust", 0) /\ built[c] = <<>>
               /\ (markup.parsed /\ wanted # 0 /\ loaded[c] # feed[c][1]) =>
                     /\ out[c].tag = "Some" /\ built[c] # <<>>
                     /\ built[c][1].image = wanted /\ built[c][1].footer = ""
                     /\ \A j \in 1..Len(From(c, ThisRun)) :
                          From(c, ThisRun)[j].msg.image = wanted

C14_Witness ==
    /\ Read("qc") /\ markup = Description(<<P(<<Img(2)>>), Img(1)>>)
    /\ out.qc.tag = "Some" /\ built.qc[1].image = 2 /\ built.qc[1].footer = ""
    /\ Len(From("qc", ThisRun)) = 1

\* an item element no RssItem can be built from
Broken(xml) ==
    \/ xml.shape # "ok"
    \/ ~xml.description.parsed
    \/ ImgPlaces(xml.description.children) = {}
    \/ NodeAt(xml.description.children, FirstImg(xml.description.children)).src = 0

\* C15: guid-ordered source, all items or none. When any item element of the
\* document cannot be built (a sub-element missing or mis-shaped, a description
\* that does not parse, no img, no src), wherever it sits in the window, the
\* result is "xml -> rust", no webhook is built, nothing is posted and the
\* checkpoint is the loaded one; the error is returned in this case only.
C15_AllOrNothing ==
    \A c \in Rss :
        Read(c) =>
            LET broken == {k \in 1..Len(doc[1]) : Broken(doc[1][k])}
            IN /\ broken # {} =>
                    /\ out[c] = Err("xml -> rust", 0)
                    /\ built[c] = <<>> /\ From(c, ThisRun) = <<>>
                    /\ state[c] = loaded[c]
               /\ out[c].e = "xml -> rust" => broken # {}

\* the item that cannot be built is older than the checkpoint, and a newer
\* item waits to be notified
C15_Witness ==
    /\ Read("smbc") /\ Len(doc[1]) = MaxWin
    /\ loaded.smbc = feed.smbc[MaxWin - 1]
    /\ ~Broken(doc[1][1]) /\ ~Broken(doc[1][MaxWin - 1])
    /\ doc[1][MaxWin].description = Flawed("no src")
    /\ out.smbc = Err("xml -> rust", 0) /\ state.smbc = loaded.smbc
    /\ From("smbc", ThisRun) = <<>>

\* where the scan starts: the position of the checkpoint in the window (1 is
\* the newest item), one past the oldest when the window does not hold it
Pos(w, g) == IF Absent(w, g) THEN Len(w) + 1 ELSE Index(w, g)

\* C16: guid-ordered catch-up on a static feed. With the window w unchanged
\* since the first run, no failure and the first checkpoint at position p (one
\* past the oldest when absent), after k runs every URL has received the items
\* at positions p-1, p-2, ... down to max(p-k, 1), oldest first and once each,
\* only the first of them with the skip marker and only when the checkpoint
\* was absent; the saved checkpoint is the last of them; the k-th run reports
\* Some of the item at position p-k while p-k >= 1 and None from then on.
C16_StaticCatchUp ==
    \A c \in Rss :
        LET w == first.feed[c]
            g == first.file[c]
            p == Pos(w, g)
            done == Min(runs, p - 1)
        IN (Completed /\ faulty = {} /\ feed[c] = w) =>
             /\ file[c] = IF done = 0 THEN g ELSE w[p - done]
             /\ out[c] = IF runs <= p - 1 THEN Some(w[p - runs]) ELSE None
             /\ \A k \in 1..Len(Sinks(c)) :
                  /\ Items(Received(c, k)) = [j \in 1..done |-> w[p - j]]
                  /\ \A j \in 1..done :
                       Received(c, k)[j].msg.content =
                           IF j = 1 /\ Absent(w, g) THEN SKIPPED ELSE ""

C16_Witness ==
    /\ Completed /\ faulty = {} /\ feed.qc = first.feed.qc
    /\ Len(feed.qc) = MaxRuns - 1 /\ Absent(feed.qc, first.file.qc)
    /\ runs = MaxRuns /\ out.qc = None /\ file.qc = feed.qc[1]
    /\ Len(Sinks("qc")) = MaxUrls
    /\ Len(Received("qc", MaxUrls)) = MaxRuns - 1
    /\ Received("qc", MaxUrls)[1].msg.content = SKIPPED
    /\ Received("qc", MaxUrls)[2].msg.content = ""

\* C17: guid-ordered source under an evolving feed. While the feed only puts
\* new items in front and drops old ones from the tail, and no fetch, delivery
\* or save fails, every URL of the source receives items in strictly
\* increasing publication order (guids are numbered as published), so none
\* twice; the result of a run that notifies names a newer item than the result
\* of the run before it, and the first notification is newer than the first
\* checkpoint.
C17_PublicationOrder ==
    \A c \in Rss :
        faulty = {} =>
             /\ \A k \in 1..Len(Sinks(c)) :
                  LET got == Items(Received(c, k))
                  IN /\ \A j \in 1..Len(got) : \A i \in 1..(j - 1) : got[i] < got[j]
                     /\ got # <<>> => first.file[c] < got[1]
             /\ (Ran(c) /\ out[c].tag = "Some") =>
                  /\ out[c].n > loaded[c]
                  /\ loaded[c] # feed[c][1]
                  /\ prev.out[c].tag = "Some" => out[c].n > prev.out[c].n

\* a feed that moved on between the runs: the checkpoint fell off the tail
C17_Witness ==
    /\ Completed /\ faulty = {} /\ runs = MaxRuns
    /\ feed.qc # first.feed.qc /\ Len(feed.qc) = MaxWin
    /\ Len(Sinks("qc")) = MaxUrls
    /\ Len(Received("qc", 1)) = MaxRuns
    /\ Received("qc", 1)[2].msg.content = SKIPPED
    /\ out.qc.tag = "Some" /\ prev.out.qc.tag = "Some" /\ out.qc.n > prev.out.qc.n

\* the debug report is posted like any webhook
DebugDone == pc = "idle" /\ Len(trace) > 1 /\ trace[Len(trace)] = "debug"

\* C18: multi-URL delivery. The posts of a source in a run are those of its one
\* webhook to the first URLs of its list, in list order, one each: the URLs
\* before the first failing one have the message, that one and those after it
\* do not. The checkpoint moves, and the result is Some, exactly when a webhook
\* was built and every URL of the list has its post, which an empty list makes
\* true with nothing delivered; when fewer have it the result is the delivery
\* error. The debug report is delivered the same way, and the console is used
\* exactly when a debug URL is left without it.
C18_PrefixDelivery ==
    /\ \A c \in {"xkcd", "qc", "smbc"} :
         Ran(c) =>
            LET got == From(c, ThisRun)
                all == Len(got) = Len(UrlsOf(c))
            IN /\ OneWebhook(c)
               /\ state[c] # loaded[c] <=> (built[c] # <<>> /\ all)
               /\ out[c].tag = "Some" <=> (built[c] # <<>> /\ all)
               /\ out[c] = Err("error sending webhook", 0) <=> (built[c] # <<>> /\ ~all)
    /\ DebugDone =>
         /\ Len(debugged) <= Len(state.debug_webhooks)
         /\ \A k \in 1..Len(debugged) :
              debugged[k] = [url |-> state.debug_webhooks[k], msg |-> DebugWebhook(out)]
         /\ console = {} <=> Len(debugged) = Len(state.debug_webhooks)

\* the second of two URLs fails: the first has the message, the checkpoint stays
C18_Witness ==
    /\ pc = "qc" /\ Len(state.xkcd_webhooks) = 2
    /\ built.xkcd # <<>>
    /\ From("xkcd", ThisRun) = <<[url |-> state.xkcd_webhooks[1], msg |-> built.xkcd[1]]>>
    /\ out.xkcd = Err("error sending webhook", 0) /\ state.xkcd = loaded.xkcd
    /\ runs = 2 /\ Len(From("xkcd", posts)) = 2

\* the fields of the record
Checkpoints == {"xkcd", "qc", "smbc"}
Lists == {"xkcd_webhooks", "qc_webhooks", "smbc_webhooks", "debug_webhooks"}

\* C19: frame of a run. The step of a source changes no field of the record
\* but the source's own checkpoint, and set and the debug report change none;
\* so the record a run saves differs from the record it loaded in the
\* checkpoints of the sources whose result is Some, and in nothing else.
C19_Frame ==
    /\ [][/\ pc \in Checkpoints =>
               \A field \in (Checkpoints \ {pc}) \cup Lists : state'[field] = state[field]
          /\ pc \in {"save", "debug"} => state' = state]_vars
    /\ [](Completed =>
            /\ \A field \in Lists : state[field] = loaded[field]
            /\ \A c \in Checkpoints : state[c] # loaded[c] <=> out[c].tag = "Some"
            /\ file = IF out.save = None THEN state ELSE loaded)

C19_Witness ==
    /\ Completed /\ out.save = None
    /\ out.xkcd.tag = "Some" /\ out.qc.tag = "Err" /\ out.smbc.tag = "Some"
    /\ file.xkcd # loaded.xkcd /\ file.qc = loaded.qc /\ file.smbc # loaded.smbc
    /\ \A field \in Lists : file[field] = loaded[field]
====
